---------------------------- MODULE Spec2Model ----------------------------
(***************************************************************************)
(* Model of the notary trust core:                                         *)
(*   - the signing key registry (GetOrCreateTimestampKey and its snapshot  *)
(*     twin), run by concurrent callers against one metadata store;        *)
(*   - certs.ValidateRoot: trust bootstrap and root certificate rotation   *)
(*     against the X509 certificate store.                                 *)
(* Every store or crypto-service call is one atomic step; what a handler   *)
(* computes between two such calls belongs to the step that follows.       *)
(***************************************************************************)
EXTENDS Naturals, FiniteSets, Sequences, TLC

(***************************************************************************)
(* Bounds of the model.                                                    *)
(***************************************************************************)
\* number of concurrent callers of the key registry
NumCallers == 2
\* number of keys the crypto service creates before the model stops creating
MaxKeys == 2
\* number of key bundles listed under the root role of a candidate root
MaxRootKeys == 2
\* number of signatures on a candidate root
MaxSigs == 2
\* the clock runs from 0 to MaxTime
MaxTime == 1

VARIABLES
    keys,        \* metadata store: (gun, role) -> stored key record or NoKey
    keyLog,      \* metadata store: (gun, role) -> the records SetKey has written, in order
    cryptoKeys,  \* crypto service: the public key ids it has created
    kp,          \* per caller: position and locals inside get-or-create key
    certStore,   \* X509 certificate store: the certificates it holds
    now,         \* the clock (time.Now)
    vr,          \* the ValidateRoot call in progress: position and locals
    metaStore,   \* metadata store: role -> current metadata of the GUN
    signerKeys,  \* crypto service: the roles whose signing key it holds
    mc           \* per caller: position and locals inside GetOrCreateSnapshot / GetOrCreateTimestamp

keyVars == <<keys, keyLog, cryptoKeys, kp>>
certVars == <<certStore, now, vr>>
metaVars == <<metaStore, signerKeys, mc>>
vars == <<keys, keyLog, cryptoKeys, kp, certStore, now, vr, metaStore, signerKeys, mc>>

(***************************************************************************)
(* Signing key registry                                                    *)
(***************************************************************************)
Guns == {"g1", "g2"}
CanonicalTimestampRole == "timestamp"
CanonicalSnapshotRole == "snapshot"
KeyRoles == {CanonicalTimestampRole, CanonicalSnapshotRole}
\* the createAlgorithm the server is configured with
CreateAlgorithm == "ed25519"
Callers == 1..NumCallers

NoKey == [alg |-> "none", pub |-> 0]
\* a key some earlier server instance stored before the model starts
PreKey == [alg |-> "ecdsa", pub |-> 100]

\* data.NewPublicKey(keyAlgorithm, public): the key rebuilt from a stored record
NewPublicKey(alg, public) == [alg |-> alg, pub |-> public]

\* store.GetKey: the stored (algorithm, public) or ErrNoKey
StoreHasKey(g, r) == keys[<<g, r>>] # NoKey

\* err: "none" or "fault" (a store or crypto call failed for a reason of its
\* own, and the error was returned).  via: the return statement a successful
\* call left through.
IdleCaller == [pc |-> "idle", gun |-> "g1", role |-> CanonicalTimestampRole,
               key |-> NoKey, ret |-> NoKey, err |-> "none", via |-> "none"]

\* a call that creates a key whatever its first GetKey answers
FirstGetKeyIgnored(p, g, r) ==
    /\ kp[p].pc = "idle"
    /\ kp' = [kp EXCEPT ![p] = [IdleCaller EXCEPT !.pc = "create", !.gun = g, !.role = r]]
    /\ UNCHANGED <<keys, keyLog, cryptoKeys>>

\* a call's first store.GetKey and the branch on its result
FirstGetKey(p, g, r) ==
    /\ kp[p].pc = "idle"
    /\ \/ /\ StoreHasKey(g, r)
          /\ kp' = [kp EXCEPT ![p] = [IdleCaller EXCEPT !.pc = "done", !.gun = g,
                        !.role = r, !.via = "get",
                        !.ret = NewPublicKey(keys[<<g, r>>].alg, keys[<<g, r>>].pub)]]
       \/ /\ ~StoreHasKey(g, r)
          /\ kp' = [kp EXCEPT ![p] = [IdleCaller EXCEPT !.pc = "create", !.gun = g,
                        !.role = r]]
       \/ kp' = [kp EXCEPT ![p] = [IdleCaller EXCEPT !.pc = "done", !.gun = g,
                        !.role = r, !.err = "fault"]]
    /\ UNCHANGED <<keys, keyLog, cryptoKeys>>

\* entry of GetOrCreateTimestampKey, up to the return of store.GetKey
GetOrCreateTimestampKey(p) ==
    /\ \E g \in Guns : FirstGetKey(p, g, CanonicalTimestampRole)
    /\ UNCHANGED certVars
    /\ UNCHANGED metaVars

\* entry of GetOrCreateSnapshotKey, up to the return of store.GetKey
GetOrCreateSnapshotKey(p) ==
    /\ \E g \in Guns : FirstGetKey(p, g, CanonicalSnapshotRole)
    /\ UNCHANGED certVars
    /\ UNCHANGED metaVars

\* crypto.Create(role, gun, createAlgorithm) after ErrNoKey
CryptoCreate(p) ==
    /\ kp[p].pc = "create"
    /\ \/ /\ Cardinality(cryptoKeys) < MaxKeys
          /\ LET pub == Cardinality(cryptoKeys) + 1
             IN  /\ cryptoKeys' = cryptoKeys \cup {pub}
                 /\ kp' = [kp EXCEPT ![p].pc = "set",
                              ![p].key = [alg |-> CreateAlgorithm, pub |-> pub]]
       \/ /\ kp' = [kp EXCEPT ![p].pc = "done", ![p].err = "fault"]
          /\ UNCHANGED cryptoKeys
    /\ UNCHANGED <<keys, keyLog>>
    /\ UNCHANGED certVars
    /\ UNCHANGED metaVars

\* the store's conditional write: stores iff no record exists for (gun, role)
SetKeyStores(g, r) == ~StoreHasKey(g, r)

\* store.SetKey(gun, role, key.Algorithm(), key.Public()) and the branch on its result
StoreSetKey(p) ==
    /\ kp[p].pc = "set"
    /\ LET g == kp[p].gun
           r == kp[p].role
       IN  \/ /\ SetKeyStores(g, r)
              /\ keys' = [keys EXCEPT ![<<g, r>>] = [alg |-> kp[p].key.alg, pub |-> kp[p].key.pub]]
              /\ keyLog' = [keyLog EXCEPT ![<<g, r>>] = Append(@, keys'[<<g, r>>])]
              /\ kp' = [kp EXCEPT ![p].pc = "done", ![p].key = NoKey,
                                  ![p].via = "set", ![p].ret = kp[p].key]
           \/ /\ StoreHasKey(g, r)
              /\ kp' = [kp EXCEPT ![p].pc = "reget"]
              /\ UNCHANGED <<keys, keyLog>>
           \/ /\ kp' = [kp EXCEPT ![p].pc = "done", ![p].key = NoKey,
                                  ![p].err = "fault"]
              /\ UNCHANGED <<keys, keyLog>>
    /\ UNCHANGED cryptoKeys
    /\ UNCHANGED certVars
    /\ UNCHANGED metaVars

\* a caller that keeps the key it created when SetKey answers ErrKeyExists
KeyAfterConflictOwn(p) == kp[p].key

\* the key a caller returns after ErrKeyExists
KeyAfterConflict(p) ==
    NewPublicKey(keys[<<kp[p].gun, kp[p].role>>].alg, keys[<<kp[p].gun, kp[p].role>>].pub)

\* the second store.GetKey, after SetKey answered ErrKeyExists.  The store
\* never deletes a key, so this read finds one unless the call itself fails.
ReGetKey(p) ==
    /\ kp[p].pc = "reget"
    /\ \/ /\ StoreHasKey(kp[p].gun, kp[p].role)
          /\ kp' = [kp EXCEPT ![p].pc = "done", ![p].key = NoKey,
                              ![p].via = "reget", ![p].ret = KeyAfterConflict(p)]
       \/ kp' = [kp EXCEPT ![p].pc = "done", ![p].key = NoKey, ![p].err = "fault"]
    /\ UNCHANGED <<keys, keyLog, cryptoKeys>>
    /\ UNCHANGED certVars
    /\ UNCHANGED metaVars

\* the caller takes the result; it may call again
KeyReturn(p) ==
    /\ kp[p].pc = "done"
    /\ kp' = [kp EXCEPT ![p] = IdleCaller]
    /\ UNCHANGED <<keys, keyLog, cryptoKeys>>
    /\ UNCHANGED certVars
    /\ UNCHANGED metaVars

(***************************************************************************)
(* Certificates, candidate roots and trust pinning                         *)
(***************************************************************************)
\* A certificate is named by its fingerprint (trustmanager.FingerprintCert,
\* taken to succeed on every certificate of the model).
\*   A  leaf for g1, self-signed          B  leaf for g1, issued by Int1
\*   D  leaf for g2, self-signed          E  leaf for g1, NotAfter = 0
\*   F  leaf for g1, signed SHA1WithRSA
\*   Int1 intermediate issued by CA1; CA1, CA2 authorities; BadCA an
\*   authority certificate that fails trustmanager.ValidateCertificate
LeafCerts == {"A", "B", "D", "E", "F"}
CACerts == {"Int1", "CA1", "CA2", "BadCA"}

CommonName(c) == IF c = "D" THEN "g2" ELSE "g1"
NotAfter(c) == IF c = "E" THEN 0 ELSE MaxTime + 1
UsesSHA1(c) == c = "F"
IsCA(c) == c \in CACerts
Issuer(c) ==
    CASE c = "B" -> "Int1"
      [] c = "Int1" -> "CA1"
      [] OTHER -> c

\* the key bundles (PEM) a root may list: the last holds two leaf certificates
KeyBundles == {{"A"}, {"B", "Int1"}, {"D"}, {"E"}, {"F"}, {"A", "D"}}

\* trustmanager.GetLeafCerts / GetIntermediateCerts on a decoded bundle
GetLeafCerts(b) == {c \in b : ~IsCA(c)}
GetIntermediateCerts(b) == {c \in b : IsCA(c)}

\* A candidate root: the bundles its root role lists (none when the role or
\* its keys are missing), the key ids with a valid signature on it, and
\* whether data.RootFromSigned decodes it.
BoundedSubsets(S, n) == {x \in SUBSET S : Cardinality(x) <= n}
Roots ==
    [keys : BoundedSubsets(KeyBundles, MaxRootKeys),
     sigs : BoundedSubsets(LeafCerts \ {"F"}, MaxSigs),
     decodes : {TRUE}]
    \cup {[keys |-> {}, sigs |-> {}, decodes |-> FALSE]}

\* parseAllCerts: the leaf certificates by fingerprint (a set), keeping the
\* bundles with exactly one leaf
ParsedLeafCerts(root) ==
    {c \in LeafCerts : \E b \in root.keys : GetLeafCerts(b) = {c}}

\* parseAllCerts: the intermediates bundled with a leaf
ParsedIntCerts(root, leaf) ==
    UNION {GetIntermediateCerts(b) : b \in {x \in root.keys : GetLeafCerts(x) = {leaf}}}

\* a validRootLeafCerts that forgets the Common Name check
validRootLeafCertsAnyName(root, gun, t) ==
    {c \in ParsedLeafCerts(root) : ~(t > NotAfter(c)) /\ ~UsesSHA1(c)}

\* a validRootLeafCerts that forgets the expiry check
validRootLeafCertsNoExpiry(root, gun, t) ==
    {c \in ParsedLeafCerts(root) : CommonName(c) = gun /\ ~UsesSHA1(c)}

\* a validRootLeafCerts that forgets the signature algorithm check
validRootLeafCertsAnyAlgorithm(root, gun, t) ==
    {c \in ParsedLeafCerts(root) : CommonName(c) = gun /\ ~(t > NotAfter(c))}

\* validRootLeafCerts: the leaves with CN = gun, not expired, not SHA1
\* (an empty result is its error)
validRootLeafCerts(root, gun, t) ==
    {c \in ParsedLeafCerts(root) :
        CommonName(c) = gun /\ ~(t > NotAfter(c)) /\ ~UsesSHA1(c)}

\* strings.HasPrefix on the names of the model
Chars(s) ==
    CASE s = "g1" -> <<"g", "1">>
      [] s = "g2" -> <<"g", "2">>
      [] s = "g" -> <<"g">>
      [] s = "x" -> <<"x">>
      [] OTHER -> <<>>
HasPrefix(s, prefix) ==
    /\ Len(Chars(prefix)) <= Len(Chars(s))
    /\ SubSeq(Chars(s), 1, Len(Chars(prefix))) = Chars(prefix)

\* notary.TrustPinConfig.  Certs and CA are maps, given as sets of pairs with
\* distinct first components; a CA value is a file path.
PinCertsChoices == {{}, {<<"g1", "A">>}}
PinCAChoices ==
    {{}, {<<"g", "ca1.pem">>}, {<<"g", "ca1.pem">>, <<"g1", "ca2.pem">>},
     {<<"g1", "missing.pem">>}, {<<"g", "bad.pem">>}, {<<"x", "ca1.pem">>}}
TrustPinConfigs == [Certs : PinCertsChoices, CA : PinCAChoices, TOFU : BOOLEAN]

\* trustmanager.LoadCertFromFile: the certificate in a file, "" when it fails
LoadCertFromFile(path) ==
    CASE path = "ca1.pem" -> "CA1"
      [] path = "ca2.pem" -> "CA2"
      [] path = "bad.pem" -> "BadCA"
      [] OTHER -> ""
\* trustmanager.ValidateCertificate
ValidateCertificate(c) == c # "BadCA"

\* utils.ContainsKeyPrefix(trustPinning.CA, gun)
ContainsKeyPrefix(ca, gun) == \E e \in ca : HasPrefix(gun, e[1])

\* a chain verification that ignores the bundled intermediates
ChainVerifiesDirect(c, caCert, ints) == Issuer(c) = caCert

\* cert.Verify with the CA as the only root and the bundled intermediates
ChainVerifies(c, caCert, ints) ==
    \/ Issuer(c) = caCert
    \/ Issuer(c) \in ints /\ Issuer(Issuer(c)) = caCert

\* signed.VerifyRoot(root, 0, trustmanager.CertsToKeys(certs)): some key of
\* the set has a valid signature on the root
VerifyRoot(root, certs) == \E c \in certs : c \in root.sigs

\* the orders in which range may visit a map
Orders(S) == {o \in [1..Cardinality(S) -> S] : \A i, j \in 1..Cardinality(S) : o[i] = o[j] => i = j}

Accept(certs) == [ok |-> TRUE, reason |-> "", certs |-> certs]
Reject(reason) == [ok |-> FALSE, reason |-> reason, certs |-> {}]

\* a loop over trustPinning.CA in which every matching entry filters the
\* valid leaves of the root afresh, so that the entry visited last decides
RECURSIVE CAPinLoopLastWins(_, _, _, _, _)
CAPinLoopLastWins(order, i, gun, root, certs) ==
    IF i > Len(order) THEN Accept(certs)
    ELSE IF ~HasPrefix(gun, order[i][1]) THEN CAPinLoopLastWins(order, i + 1, gun, root, certs)
    ELSE LET caCert == LoadCertFromFile(order[i][2])
         IN  IF caCert = "" THEN Reject("failed to load specified CA trust pin")
             ELSE IF ~ValidateCertificate(caCert)
                  THEN Reject("failed to validate specified CA trust pin")
             ELSE CAPinLoopLastWins(order, i + 1, gun, root,
                      {c \in validRootLeafCerts(root, gun, now) :
                          ChainVerifies(c, caCert, ParsedIntCerts(root, c))})

\* the loop over trustPinning.CA, visiting the entries in the given order
\* from position i on, with allValidCerts = certs
RECURSIVE CAPinLoop(_, _, _, _, _)
CAPinLoop(order, i, gun, root, certs) ==
    IF i > Len(order) THEN Accept(certs)
    ELSE IF ~HasPrefix(gun, order[i][1]) THEN CAPinLoop(order, i + 1, gun, root, certs)
    ELSE LET caCert == LoadCertFromFile(order[i][2])
         IN  IF caCert = "" THEN Reject("failed to load specified CA trust pin")
             ELSE IF ~ValidateCertificate(caCert)
                  THEN Reject("failed to validate specified CA trust pin")
             ELSE CAPinLoop(order, i + 1, gun, root,
                      {c \in certs : ChainVerifies(c, caCert, ParsedIntCerts(root, c))})

\* a trust decision that consults the CA pins before the pinned certificates
TrustPinningCAFirst(root, gun, pin, allValidCerts, order) ==
    IF ContainsKeyPrefix(pin.CA, gun) THEN CAPinLoop(order, 1, gun, root, allValidCerts)
    ELSE IF \E e \in pin.Certs : e[1] = gun
    THEN LET match == {c \in allValidCerts : <<gun, c>> \in pin.Certs}
         IN  IF match = {} THEN Reject("failed to find matching certificate ID")
             ELSE Accept(match)
    ELSE IF ~pin.TOFU
    THEN Reject("could not bootstrap trust without trust_pinning configuration")
    ELSE Accept(allValidCerts)

\* a trust decision that falls back to TOFU whatever the TOFU setting
TrustPinningAlwaysTOFU(root, gun, pin, allValidCerts, order) ==
    IF \E e \in pin.Certs : e[1] = gun
    THEN LET match == {c \in allValidCerts : <<gun, c>> \in pin.Certs}
         IN  IF match = {} THEN Reject("failed to find matching certificate ID")
             ELSE Accept(match)
    ELSE IF ContainsKeyPrefix(pin.CA, gun) THEN CAPinLoop(order, 1, gun, root, allValidCerts)
    ELSE Accept(allValidCerts)

\* the trust decision taken when no certificate is trusted for the gun:
\* pinned certificate, else pinned CA, else TOFU
TrustPinning(root, gun, pin, allValidCerts, order) ==
    IF \E e \in pin.Certs : e[1] = gun
    THEN LET match == {c \in allValidCerts : <<gun, c>> \in pin.Certs}
         IN  IF match = {} THEN Reject("failed to find matching certificate ID")
             ELSE Accept(match)
    ELSE IF ContainsKeyPrefix(pin.CA, gun) THEN CAPinLoop(order, 1, gun, root, allValidCerts)
    ELSE IF ~pin.TOFU
    THEN Reject("could not bootstrap trust without trust_pinning configuration")
    ELSE Accept(allValidCerts)

\* certsToRemove: the old certificates whose fingerprint is not among the new
certsToRemove(oldCerts, newCerts) ==
    IF newCerts = {} THEN {} ELSE {c \in oldCerts : c \notin newCerts}

\* certStore.GetCertificatesByCN(gun); ErrNoCertificatesFound when empty
GetCertificatesByCN(gun) == {c \in certStore : CommonName(c) = gun}

(***************************************************************************)
(* certs.ValidateRoot                                                      *)
(***************************************************************************)
\* The locals of a call.  cand is validRootLeafCerts' result, certsForCN the
\* answer of GetCertificatesByCN, allValidCerts the set rotation trusts,
\* checks the certificate sets handed to signed.VerifyRoot, in order.
\* store0, offered, addFailed, removeCalls and removeFailed record the store
\* calls the call has made: the store at entry, the AddCert and RemoveCert
\* arguments and the ones that answered with an error of their own.
\* leaves is the argument's content: the leaf certificates of the root.
IdleVR ==
    [pc |-> "idle", gun |-> "g1", decodes |-> TRUE, sigs |-> {}, pin |-> [Certs |-> {}, CA |-> {}, TOFU |-> FALSE],
     lookupErr |-> FALSE, cand |-> {}, certsForCN |-> {}, allValidCerts |-> {},
     checks |-> <<>>, toAdd |-> {}, toRemove |-> {}, result |-> "", reason |-> "",
     store0 |-> {}, offered |-> {}, addFailed |-> {}, removeCalls |-> {}, removeFailed |-> FALSE,
     leaves |-> {}]

Fail(v, reason) == [v EXCEPT !.pc = "done", !.result = "ErrValidationFail", !.reason = reason]

\* a ValidateRoot that does not check the root against the trusted certificates
VerifiedByTrustedSkipped(root, certsForCN) == TRUE

\* line 108: the root verifies against the certificates already trusted
VerifiedByTrusted(root, certsForCN) == VerifyRoot(root, certsForCN)

\* a ValidateRoot that consults the trust pinning configuration also when
\* certificates are already trusted for the gun
ValidatedPinsAlways(gun, root, pin, lookupErr, order) ==
    LET v0 == [IdleVR EXCEPT !.gun = gun, !.decodes = root.decodes, !.sigs = root.sigs,
                              !.pin = pin, !.store0 = certStore,
                              !.leaves = ParsedLeafCerts(root)]
        cand == validRootLeafCerts(root, gun, now)
        v1 == [v0 EXCEPT !.cand = cand]
        certsForCN == GetCertificatesByCN(gun)
        v2 == [v1 EXCEPT !.certsForCN = certsForCN]
        decision == TrustPinning(root, gun, pin, cand, order)
        v3 == [v2 EXCEPT !.checks = IF certsForCN # {} THEN <<certsForCN>> ELSE <<>>]
        v4 == [v3 EXCEPT !.checks = Append(v3.checks, decision.certs),
                         !.allValidCerts = decision.certs]
    IN  IF ~root.decodes THEN [v0 EXCEPT !.pc = "done", !.result = "decodeErr"]
        ELSE IF cand = {} THEN Fail(v1, "unable to retrieve valid leaf certificates")
        ELSE IF lookupErr
             THEN Fail([v1 EXCEPT !.lookupErr = TRUE], "unable to retrieve trusted certificates")
        ELSE IF certsForCN # {} /\ ~VerifiedByTrusted(root, certsForCN)
             THEN Fail(v3, "failed to validate data with current trusted certificates")
        ELSE IF ~decision.ok THEN Fail(v3, decision.reason)
        ELSE IF ~VerifyRoot(root, decision.certs)
             THEN Fail(v4, "failed to validate integrity of roots")
        ELSE [v4 EXCEPT !.pc = "adding", !.toAdd = decision.certs]

\* ValidateRoot from its entry to the start of rotation: everything it
\* decides from the root, the pin configuration, the clock and the one read
\* of the store
Validated(gun, root, pin, lookupErr, order) ==
    LET v0 == [IdleVR EXCEPT !.gun = gun, !.decodes = root.decodes, !.sigs = root.sigs,
                              !.pin = pin, !.store0 = certStore,
                              !.leaves = ParsedLeafCerts(root)]
        cand == validRootLeafCerts(root, gun, now)
        v1 == [v0 EXCEPT !.cand = cand]
        certsForCN == GetCertificatesByCN(gun)
        v2 == [v1 EXCEPT !.certsForCN = certsForCN]
        decision == IF certsForCN # {} THEN Accept(cand)
                    ELSE TrustPinning(root, gun, pin, cand, order)
        v3 == [v2 EXCEPT !.checks = IF certsForCN # {} THEN <<certsForCN>> ELSE <<>>]
        v4 == [v3 EXCEPT !.checks = Append(v3.checks, decision.certs),
                         !.allValidCerts = decision.certs]
    IN  IF ~root.decodes THEN [v0 EXCEPT !.pc = "done", !.result = "decodeErr"]
        ELSE IF cand = {} THEN Fail(v1, "unable to retrieve valid leaf certificates")
        ELSE IF lookupErr
             THEN Fail([v1 EXCEPT !.lookupErr = TRUE], "unable to retrieve trusted certificates")
        ELSE IF certsForCN # {} /\ ~VerifiedByTrusted(root, certsForCN)
             THEN Fail(v3, "failed to validate data with current trusted certificates")
        ELSE IF ~decision.ok THEN Fail(v3, decision.reason)
        ELSE IF ~VerifyRoot(root, decision.certs)
             THEN Fail(v4, "failed to validate integrity of roots")
        ELSE [v4 EXCEPT !.pc = "adding", !.toAdd = decision.certs]

\* ValidateRoot(certStore, root, gun, trustPinning), up to the first AddCert
ValidateRoot ==
    /\ vr.pc = "idle"
    /\ \E gun \in Guns, root \in Roots, pin \in TrustPinConfigs, lookupErr \in BOOLEAN :
         \E order \in Orders(pin.CA) :
            vr' = Validated(gun, root, pin, lookupErr, order)
    /\ UNCHANGED <<certStore, now>>
    /\ UNCHANGED keyVars
    /\ UNCHANGED metaVars

\* a rotation that gives up at the first AddCert error
AddErrorAborts == TRUE

\* lines 210-217: an AddCert error is logged and the loop goes on
AddErrorIsFatal == FALSE

\* the call after one more AddCert: the next AddCert, else the removals of
\* certsToRemove(certsForCN, allValidCerts), else the return of nil
AfterAdd(v, c) ==
    LET rest == v.toAdd \ {c}
        rm == certsToRemove(v.certsForCN, v.allValidCerts)
        w == [v EXCEPT !.toAdd = rest, !.offered = @ \cup {c}]
    IN  IF rest # {} THEN w
        ELSE IF rm # {} THEN [w EXCEPT !.pc = "removing", !.toRemove = rm]
        ELSE [w EXCEPT !.pc = "done", !.result = "ok"]

\* certStore.AddCert(cert) for one certificate of allValidCerts
AddCert ==
    /\ vr.pc = "adding"
    /\ \E c \in vr.toAdd :
         \/ /\ c \in certStore            \* ErrCertExists: ignored
            /\ vr' = AfterAdd(vr, c)
            /\ UNCHANGED certStore
         \/ /\ c \notin certStore         \* added
            /\ certStore' = certStore \cup {c}
            /\ vr' = AfterAdd(vr, c)
         \/ /\ c \notin certStore         \* another error: logged
            /\ vr' = IF AddErrorIsFatal
                     THEN [vr EXCEPT !.pc = "done", !.result = "ErrRootRotationFail",
                                     !.offered = @ \cup {c}, !.addFailed = @ \cup {c}]
                     ELSE [AfterAdd(vr, c) EXCEPT !.addFailed = @ \cup {c}]
            /\ UNCHANGED certStore
    /\ UNCHANGED now
    /\ UNCHANGED keyVars
    /\ UNCHANGED metaVars

\* a rotation that reports a failed RemoveCert as a validation failure
RemoveCertFailsValidation ==
    /\ vr.pc = "removing"
    /\ \E c \in vr.toRemove :
         \/ /\ c \in certStore
            /\ certStore' = certStore \ {c}
            /\ vr' = [vr EXCEPT !.toRemove = @ \ {c}, !.removeCalls = @ \cup {c},
                                !.pc = IF vr.toRemove = {c} THEN "done" ELSE "removing",
                                !.result = IF vr.toRemove = {c} THEN "ok" ELSE ""]
         \/ /\ vr' = [vr EXCEPT !.removeCalls = @ \cup {c}, !.removeFailed = TRUE,
                                !.pc = "done", !.result = "ErrValidationFail",
                                !.reason = "failed to rotate root keys"]
            /\ UNCHANGED certStore
    /\ UNCHANGED now
    /\ UNCHANGED keyVars
    /\ UNCHANGED metaVars

\* certStore.RemoveCert(cert) for one certificate of certsToRemove
RemoveCert ==
    /\ vr.pc = "removing"
    /\ \E c \in vr.toRemove :
         \/ /\ c \in certStore            \* removed
            /\ certStore' = certStore \ {c}
            /\ vr' = [vr EXCEPT !.toRemove = @ \ {c}, !.removeCalls = @ \cup {c},
                                !.pc = IF vr.toRemove = {c} THEN "done" ELSE "removing",
                                !.result = IF vr.toRemove = {c} THEN "ok" ELSE ""]
         \/ /\ vr' = [vr EXCEPT !.removeCalls = @ \cup {c}, !.removeFailed = TRUE,
                                !.pc = "done", !.result = "ErrRootRotationFail",
                                !.reason = "failed to rotate root keys"]
            /\ UNCHANGED certStore
    /\ UNCHANGED now
    /\ UNCHANGED keyVars
    /\ UNCHANGED metaVars

\* the caller takes ValidateRoot's result
VRReturn ==
    /\ vr.pc = "done"
    /\ vr' = IdleVR
    /\ UNCHANGED <<certStore, now>>
    /\ UNCHANGED keyVars
    /\ UNCHANGED metaVars

\* the process stops inside rotation; a later process starts afresh
VRCrash ==
    /\ vr.pc \in {"adding", "removing"}
    /\ vr' = IdleVR
    /\ UNCHANGED <<certStore, now>>
    /\ UNCHANGED keyVars
    /\ UNCHANGED metaVars

\* time passes between two calls (a call reads the clock once)
Tick ==
    /\ vr.pc = "idle"
    /\ now < MaxTime
    /\ now' = now + 1
    /\ UNCHANGED <<certStore, vr>>
    /\ UNCHANGED keyVars
    /\ UNCHANGED metaVars

(***************************************************************************)
(* Snapshot and timestamp metadata of one GUN                              *)
(***************************************************************************)
CanonicalRootRole == "root"
MetaRoles == {CanonicalRootRole, CanonicalSnapshotRole, CanonicalTimestampRole}

\* Stored bytes, by what they decode to.  snap is the hash a timestamp
\* records for the snapshot role; the hash of a document is taken to be
\* injective and is the tuple of its content.
NoDoc == [kind |-> "absent", version |-> 0, expires |-> 0, snap |-> <<>>]
InvalidJSON == [kind |-> "corrupt", version |-> 0, expires |-> 0, snap |-> <<>>]
RootDoc == [kind |-> "root", version |-> 0, expires |-> 0, snap |-> <<>>]
SnapshotDoc(version, expires) ==
    [kind |-> "snapshot", version |-> version, expires |-> expires, snap |-> <<>>]
Hashes(doc) == <<doc.kind, doc.version, doc.expires>>
TimestampDoc(version, expires, hashes) ==
    [kind |-> "timestamp", version |-> version, expires |-> expires, snap |-> hashes]

\* a default expiry of no time at all
DefaultExpiresNone(role) == 0

\* data.DefaultExpires(role), in ticks of the clock
DefaultExpires(role) == IF role = CanonicalTimestampRole THEN 1 ELSE 2

\* a signed.IsExpired that takes everything for expired
IsExpiredAlways(t) == TRUE

\* signed.IsExpired(t): t is before time.Now()
IsExpired(t) == t < now

\* snapshot.snapshotExpired(sn)
snapshotExpiredSn(sn) == IsExpired(sn.expires)

\* timestampExpired(ts)
timestampExpired(ts) == IsExpired(ts.expires)

\* snapshotExpired(ts, snapshot): data.CheckHashes(snapshot, ts...Hashes) != nil
snapshotExpired(ts, snapshot) == ts.snap # Hashes(snapshot)

\* a record of the store: the bytes and when they were written
Entry(doc, lastModified) == [data |-> doc, lastModified |-> lastModified]

\* store.GetCurrent(gun, role): ErrNotFound when nothing is stored
Stored(role) == metaStore[role].data.kind # "absent"

\* store.UpdateCurrent(gun, update) is conditional: it stores unless a version
\* at least as new is already stored
UpdateStores(update) ==
    ~Stored(update.kind) \/ metaStore[update.kind].data.version < update.version

\* The locals of a call.  op is the function called; prevTs, tsLM the
\* timestamp and lastModified read at line 321; prevSn the snapshot the
\* snapshot engine read; snap the snapshot bytes it answered; update the
\* document to persist; ret, retLM, err the results; wrote the roles the
\* call has written to the store.
IdleCall ==
    [pc |-> "idle", op |-> "", prevTs |-> NoDoc, tsLM |-> 0, prevSn |-> NoDoc,
     snap |-> NoDoc, update |-> NoDoc, ret |-> NoDoc, retLM |-> 0, err |-> "",
     wrote |-> {}]

\* a call ends: its locals are gone, its results and its writes remain
MetaDone(c, lastModified, doc, err) ==
    [IdleCall EXCEPT !.pc = "done", !.op = c.op, !.wrote = c.wrote,
                     !.ret = doc, !.retLM = lastModified, !.err = err]

\* a call ends with an error: no bytes, no lastModified
MetaFail(c, err) == MetaDone(c, 0, NoDoc, err)

\* GetOrCreateSnapshot answers: to its caller, or to GetOrCreateTimestamp
\* at line 333
SnapshotAnswers(c, lastModified, doc) ==
    IF c.op = "snapshot"
    THEN MetaDone(c, lastModified, doc, "")
    ELSE [c EXCEPT !.pc = "tsCheck", !.snap = doc, !.prevSn = NoDoc, !.update = NoDoc]

\* a root load that takes whatever bytes are stored
LoadRootUnparsed ==
    {IF ~Stored(CanonicalRootRole) THEN "ErrNotFound" ELSE ""}

\* the ways loading the root ends: the error, or "" when it is loaded
LoadRoot ==
    {CASE ~Stored(CanonicalRootRole) -> "ErrNotFound"
       [] metaStore[CanonicalRootRole].data.kind = "corrupt" -> "SyntaxError"
       [] OTHER -> ""}

\* a snapshot engine that creates the first snapshot when none is stored
SnapshotGetCurrentLazy(c) ==
    LET e == metaStore[CanonicalSnapshotRole]
    IN  {CASE ~Stored(CanonicalSnapshotRole) -> [c EXCEPT !.pc = "snGen", !.prevSn = NoDoc]
          [] e.data.kind = "corrupt" -> MetaFail(c, "SyntaxError")
          [] snapshotExpiredSn(e.data) -> [c EXCEPT !.pc = "snGen", !.prevSn = e.data]
          [] OTHER -> SnapshotAnswers(c, e.lastModified, e.data)}

\* a snapshot engine that reports unparseable bytes as a missing snapshot
SnapshotGetCurrentMasked(c) ==
    LET e == metaStore[CanonicalSnapshotRole]
    IN  {CASE e.data.kind # "snapshot" -> MetaFail(c, "ErrNotFound")
          [] snapshotExpiredSn(e.data) -> [c EXCEPT !.pc = "snGen", !.prevSn = e.data]
          [] OTHER -> SnapshotAnswers(c, e.lastModified, e.data)}

\* GetOrCreateSnapshot up to its decision: store.GetCurrent, the parse and
\* the expiry test.  A missing snapshot is the store's ErrNotFound.
SnapshotGetCurrent(c) ==
    LET e == metaStore[CanonicalSnapshotRole]
    IN  {CASE ~Stored(CanonicalSnapshotRole) -> MetaFail(c, "ErrNotFound")
          [] e.data.kind = "corrupt" -> MetaFail(c, "SyntaxError")
          [] snapshotExpiredSn(e.data) -> [c EXCEPT !.pc = "snGen", !.prevSn = e.data]
          [] OTHER -> SnapshotAnswers(c, e.lastModified, e.data)}

\* GetOrCreateSnapshot(gun, store, cryptoService), up to the return of
\* store.GetCurrent and what it decides from it
GetOrCreateSnapshot(p) ==
    /\ mc[p].pc = "idle"
    /\ \E c \in SnapshotGetCurrent([IdleCall EXCEPT !.op = "snapshot"]) :
          mc' = [mc EXCEPT ![p] = c]
    /\ UNCHANGED <<metaStore, signerKeys>>
    /\ UNCHANGED <<keyVars, certVars>>

\* a GetOrCreateTimestamp that starts a first timestamp when none is stored
GetOrCreateTimestampFirst(p) ==
    /\ mc[p].pc = "idle"
    /\ LET e == metaStore[CanonicalTimestampRole]
           c == [IdleCall EXCEPT !.op = "timestamp"]
       IN  \/ /\ e.data.kind = "corrupt"
              /\ mc' = [mc EXCEPT ![p] = MetaFail(c, "SyntaxError")]
           \/ /\ e.data.kind # "corrupt"
              /\ mc' = [mc EXCEPT ![p] = [c EXCEPT !.pc = "snGet", !.prevTs = e.data,
                                                   !.tsLM = e.lastModified]]
    /\ UNCHANGED <<metaStore, signerKeys>>
    /\ UNCHANGED <<keyVars, certVars>>

\* GetOrCreateTimestamp(gun, store, cryptoService), lines 321-331
GetOrCreateTimestamp(p) ==
    /\ mc[p].pc = "idle"
    /\ LET e == metaStore[CanonicalTimestampRole]
           c == [IdleCall EXCEPT !.op = "timestamp"]
       IN  \/ /\ ~Stored(CanonicalTimestampRole)
              /\ mc' = [mc EXCEPT ![p] = MetaFail(c, "ErrNotFound")]
           \/ /\ e.data.kind = "corrupt"
              /\ mc' = [mc EXCEPT ![p] = MetaFail(c, "SyntaxError")]
           \/ /\ e.data.kind = "timestamp"
              /\ mc' = [mc EXCEPT ![p] = [c EXCEPT !.pc = "snGet", !.prevTs = e.data,
                                                   !.tsLM = e.lastModified]]
    /\ UNCHANGED <<metaStore, signerKeys>>
    /\ UNCHANGED <<keyVars, certVars>>

\* line 333: snapshot.GetOrCreateSnapshot called by GetOrCreateTimestamp
TimestampGetsSnapshot(p) ==
    /\ mc[p].pc = "snGet"
    /\ \E c \in SnapshotGetCurrent(mc[p]) : mc' = [mc EXCEPT ![p] = c]
    /\ UNCHANGED <<metaStore, signerKeys>>
    /\ UNCHANGED <<keyVars, certVars>>

\* a snapshot generation that does not need the signing key
createSnapshotUnsigned(prev, rootErr) ==
    IF rootErr # "" THEN [err |-> rootErr, update |-> NoDoc]
    ELSE [err |-> "",
          update |-> SnapshotDoc(prev.version + 1,
                                 now + DefaultExpires(CanonicalSnapshotRole))]

\* generation of a snapshot: the error, or the snapshot signed with the next
\* version and the default expiry
createSnapshot(prev, rootErr) ==
    IF rootErr # "" THEN [err |-> rootErr, update |-> NoDoc]
    ELSE IF CanonicalSnapshotRole \notin signerKeys THEN [err |-> "ErrNoKeys", update |-> NoDoc]
    ELSE [err |-> "",
          update |-> SnapshotDoc(prev.version + 1,
                                 now + DefaultExpires(CanonicalSnapshotRole))]

\* the snapshot engine generates: it loads the root and signs a snapshot
\* with the next version and the default expiry
SnapshotGenerate(p) ==
    /\ mc[p].pc = "snGen"
    /\ \E rootErr \in LoadRoot :
          LET r == createSnapshot(mc[p].prevSn, rootErr)
          IN  mc' = [mc EXCEPT ![p] =
                       IF r.err # "" THEN MetaFail(mc[p], r.err)
                       ELSE [mc[p] EXCEPT !.pc = "snUpdate", !.update = r.update]]
    /\ UNCHANGED <<metaStore, signerKeys>>
    /\ UNCHANGED <<keyVars, certVars>>

\* the snapshot engine persists: store.UpdateCurrent; a version conflict is
\* returned to the caller
SnapshotUpdate(p) ==
    /\ mc[p].pc = "snUpdate"
    /\ IF UpdateStores(mc[p].update)
       THEN /\ metaStore' = [metaStore EXCEPT ![CanonicalSnapshotRole] = Entry(mc[p].update, now)]
            /\ mc' = [mc EXCEPT ![p] =
                        SnapshotAnswers([mc[p] EXCEPT !.wrote = @ \cup {CanonicalSnapshotRole}],
                                        now, mc[p].update)]
       ELSE /\ mc' = [mc EXCEPT ![p] = MetaFail(mc[p], "ErrOldVersion")]
            /\ UNCHANGED metaStore
    /\ UNCHANGED signerKeys
    /\ UNCHANGED <<keyVars, certVars>>

\* a createTimestamp that signs with a version two higher than prev
createTimestampSkips(prev, snapshot, rootErr) ==
    IF rootErr # "" THEN [err |-> rootErr, update |-> NoDoc]
    ELSE IF CanonicalTimestampRole \notin signerKeys THEN [err |-> "ErrNoKeys", update |-> NoDoc]
    ELSE [err |-> "",
          update |-> TimestampDoc(prev.version + 2,
                                  now + DefaultExpires(CanonicalTimestampRole),
                                  Hashes(snapshot))]

\* a createTimestamp that keeps the snapshot hash of the previous timestamp
createTimestampStaleHash(prev, snapshot, rootErr) ==
    IF rootErr # "" THEN [err |-> rootErr, update |-> NoDoc]
    ELSE IF CanonicalTimestampRole \notin signerKeys THEN [err |-> "ErrNoKeys", update |-> NoDoc]
    ELSE [err |-> "",
          update |-> TimestampDoc(prev.version + 1,
                                  now + DefaultExpires(CanonicalTimestampRole),
                                  prev.snap)]

\* createTimestamp and NewTimestampUpdate: the error, or the timestamp signed
\* over the current snapshot with the next version and the default expiry
createTimestamp(prev, snapshot, rootErr) ==
    IF rootErr # "" THEN [err |-> rootErr, update |-> NoDoc]
    ELSE IF CanonicalTimestampRole \notin signerKeys THEN [err |-> "ErrNoKeys", update |-> NoDoc]
    ELSE [err |-> "",
          update |-> TimestampDoc(prev.version + 1,
                                  now + DefaultExpires(CanonicalTimestampRole),
                                  Hashes(snapshot))]

\* a freshness test that looks at the expiry only
TimestampIsFreshByExpiry(prev, snapshot) == ~timestampExpired(prev)

\* line 339: the stored timestamp is returned as it is
TimestampIsFresh(prev, snapshot) ==
    ~timestampExpired(prev) /\ ~snapshotExpired(prev, snapshot)

\* lines 339-347: the freshness test and, when stale, createTimestamp
TimestampCheck(p) ==
    /\ mc[p].pc = "tsCheck"
    /\ IF TimestampIsFresh(mc[p].prevTs, mc[p].snap)
       THEN mc' = [mc EXCEPT ![p] = MetaDone(mc[p], mc[p].tsLM, mc[p].prevTs, "")]
       ELSE \E rootErr \in LoadRoot :
               LET r == createTimestamp(mc[p].prevTs, mc[p].snap, rootErr)
               IN  mc' = [mc EXCEPT ![p] =
                            IF r.err # "" THEN MetaFail(mc[p], r.err)
                            ELSE [mc[p] EXCEPT !.pc = "tsUpdate", !.update = r.update]]
    /\ UNCHANGED <<metaStore, signerKeys>>
    /\ UNCHANGED <<keyVars, certVars>>

\* a GetOrCreateTimestamp that returns the bytes it generated whatever
\* store.UpdateCurrent answers
TimestampUpdateUnchecked(p) ==
    /\ mc[p].pc = "tsUpdate"
    /\ IF UpdateStores(mc[p].update)
       THEN /\ metaStore' = [metaStore EXCEPT ![CanonicalTimestampRole] = Entry(mc[p].update, now)]
            /\ mc' = [mc EXCEPT ![p] =
                        MetaDone([mc[p] EXCEPT !.wrote = @ \cup {CanonicalTimestampRole}],
                                 now, mc[p].update, "")]
       ELSE /\ mc' = [mc EXCEPT ![p] = MetaDone(mc[p], now, mc[p].update, "")]
            /\ UNCHANGED metaStore
    /\ UNCHANGED signerKeys
    /\ UNCHANGED <<keyVars, certVars>>

\* lines 349-354: store.UpdateCurrent(gun, *update) and the return
TimestampUpdate(p) ==
    /\ mc[p].pc = "tsUpdate"
    /\ IF UpdateStores(mc[p].update)
       THEN /\ metaStore' = [metaStore EXCEPT ![CanonicalTimestampRole] = Entry(mc[p].update, now)]
            /\ mc' = [mc EXCEPT ![p] =
                        MetaDone([mc[p] EXCEPT !.wrote = @ \cup {CanonicalTimestampRole}],
                                 now, mc[p].update, "")]
       ELSE /\ mc' = [mc EXCEPT ![p] = MetaFail(mc[p], "ErrOldVersion")]
            /\ UNCHANGED metaStore
    /\ UNCHANGED signerKeys
    /\ UNCHANGED <<keyVars, certVars>>

\* the caller takes the result; it may call again
MetaReturn(p) ==
    /\ mc[p].pc = "done"
    /\ mc' = [mc EXCEPT ![p] = IdleCall]
    /\ UNCHANGED <<metaStore, signerKeys>>
    /\ UNCHANGED <<keyVars, certVars>>

(***************************************************************************)
(* Specifications                                                          *)
(***************************************************************************)
KeyIdle ==
    /\ keyLog = [t \in Guns \X KeyRoles |-> <<>>]
    /\ cryptoKeys = {}
    /\ kp = [p \in Callers |-> IdleCaller]

CertIdle ==
    /\ certStore = {}
    /\ now = 0
    /\ vr = IdleVR

MetaIdle ==
    /\ metaStore = [r \in MetaRoles |-> Entry(NoDoc, 0)]
    /\ signerKeys = {}
    /\ mc = [p \in Callers |-> IdleCall]

KeyInit ==
    /\ keys \in [Guns \X KeyRoles -> {NoKey, PreKey}]
    /\ KeyIdle
    /\ CertIdle
    /\ MetaIdle

KeyNext ==
    \E p \in Callers :
        \/ GetOrCreateTimestampKey(p)
        \/ GetOrCreateSnapshotKey(p)
        \/ CryptoCreate(p)
        \/ StoreSetKey(p)
        \/ ReGetKey(p)
        \/ KeyReturn(p)

\* the key registry under concurrent callers
SpecKeys == KeyInit /\ [][KeyNext]_vars

CertInit ==
    /\ keys = [t \in Guns \X KeyRoles |-> NoKey]
    /\ KeyIdle
    /\ CertIdle
    /\ MetaIdle

CertNext ==
    \/ ValidateRoot
    \/ AddCert
    \/ RemoveCert
    \/ VRReturn
    \/ VRCrash
    \/ Tick

\* ValidateRoot calls, one after the other, on a store that starts empty
SpecCerts == CertInit /\ [][CertNext]_vars

\* the metadata a store may hold when the server is called: a root, a
\* snapshot and a timestamp that are missing, corrupt or well-formed; the
\* timestamp records the hash of one of the snapshots
InitSnapshots == {SnapshotDoc(0, 0), SnapshotDoc(0, MaxTime + 1)}
InitTimestamps ==
    {TimestampDoc(0, e, Hashes(sn)) : e \in {0, MaxTime + 1}, sn \in InitSnapshots}

MetaInit ==
    /\ keys = [t \in Guns \X KeyRoles |-> NoKey]
    /\ KeyIdle
    /\ CertIdle
    /\ \E r \in {NoDoc, InvalidJSON, RootDoc},
          sn \in {NoDoc, InvalidJSON} \cup InitSnapshots,
          ts \in {NoDoc, InvalidJSON} \cup InitTimestamps :
          metaStore = (CanonicalRootRole :> Entry(r, 0))
                      @@ (CanonicalSnapshotRole :> Entry(sn, 0))
                      @@ (CanonicalTimestampRole :> Entry(ts, 0))
    /\ signerKeys \in SUBSET KeyRoles
    /\ mc = [p \in Callers |-> IdleCall]

MetaNext ==
    \/ \E p \in Callers :
          \/ GetOrCreateSnapshot(p)
          \/ GetOrCreateTimestamp(p)
          \/ TimestampGetsSnapshot(p)
          \/ SnapshotGenerate(p)
          \/ SnapshotUpdate(p)
          \/ TimestampCheck(p)
          \/ TimestampUpdate(p)
          \/ MetaReturn(p)
    \/ Tick

\* GetOrCreateSnapshot and GetOrCreateTimestamp under concurrent callers
SpecMeta == MetaInit /\ [][MetaNext]_vars

(***************************************************************************)
(* Claims about the signing key registry                                   *)
(***************************************************************************)
KeyTargets == Guns \X KeyRoles
Target(p) == <<kp[p].gun, kp[p].role>>

\* C1: for a (gun, role) with no pre-existing key, under every interleaving
\* of the callers SetKey writes at most one record, and every call that has
\* returned, none of its store and crypto calls having failed for a reason
\* of its own, returned without error exactly the one stored record: also
\* the caller that created another key and lost the SetKey race.
C1_OneKeyAllCallers ==
    \A t \in KeyTargets :
        keys[t] # PreKey =>
            /\ Len(keyLog[t]) <= 1
            /\ \A p \in Callers :
                  (kp[p].pc = "done" /\ Target(p) = t /\ kp[p].err # "fault") =>
                      /\ kp[p].err = "none"
                      /\ Len(keyLog[t]) = 1
                      /\ kp[p].ret = keyLog[t][1]
                      /\ keys[t] = kp[p].ret

\* C1 witness: two callers have returned for the same (gun, role) that had
\* no key; one stored its key, the other lost the race and returned the
\* re-read record.
C1_Witness ==
    \E p, q \in Callers :
        /\ p # q /\ Target(p) = Target(q)
        /\ kp[p].pc = "done" /\ kp[q].pc = "done"
        /\ kp[p].via = "reget" /\ kp[q].via = "set"
        /\ keys[Target(p)] # PreKey
        /\ kp[p].ret = kp[q].ret

\* C2: once a record is stored for (gun, role) no step changes it, and a
\* call that starts afterwards returns in its first step (it never reaches
\* crypto.Create or store.SetKey, and no key is created) with exactly that
\* record, unless its GetKey failed for a reason of its own.
C2_StoredKeyImmutable ==
    [][\A t \in KeyTargets :
          keys[t] # NoKey =>
              /\ keys'[t] = keys[t]
              /\ keyLog'[t] = keyLog[t]
              /\ \A p \in Callers :
                    (kp[p].pc = "idle" /\ kp'[p].pc # "idle"
                        /\ <<kp'[p].gun, kp'[p].role>> = t) =>
                        /\ kp'[p].pc = "done"
                        /\ cryptoKeys' = cryptoKeys
                        /\ kp'[p].err \in {"none", "fault"}
                        /\ kp'[p].err = "none" =>
                              kp'[p].via = "get" /\ kp'[p].ret = keys[t]]_vars

\* C2 witness: a record written by one caller's SetKey has been returned by
\* a later call through its first GetKey.
C2_Witness ==
    \E p \in Callers :
        /\ kp[p].pc = "done" /\ kp[p].via = "get"
        /\ Len(keyLog[Target(p)]) = 1
        /\ kp[p].ret = keyLog[Target(p)][1]
        /\ \A q \in Callers : kp[q].pc = "idle" \/ q = p

(***************************************************************************)
(* Claims about ValidateRoot                                               *)
(***************************************************************************)
\* the certificates trusted for the call's gun at its entry, and now
Trusted0 == {c \in vr.store0 : CommonName(c) = vr.gun}
TrustedNow == GetCertificatesByCN(vr.gun)
\* the call has a decoded root with valid leaves and the store answered
Entered == vr.pc # "idle" /\ vr.decodes /\ vr.cand # {} /\ ~vr.lookupErr
\* the pinned certificate ids of the call's gun (none or one)
Pinned == {e[2] : e \in {x \in vr.pin.Certs : x[1] = vr.gun}}
NoCAPin == ~ContainsKeyPrefix(vr.pin.CA, vr.gun)
RootSigs == [sigs |-> vr.sigs]

\* C3 (as claimed): the store trusts exactly A for the gun, the root's only
\* valid leaf is B and the root is signed only by B's key: ValidateRoot
\* succeeds, A is removed, B is added, and the signatures were validated
\* using A only.
C3_Original ==
    (vr.pc = "done" /\ Entered /\ Trusted0 = {"A"} /\ vr.cand = {"B"} /\ vr.sigs = {"B"}) =>
        /\ vr.result = "ok"
        /\ "A" \notin certStore /\ "B" \in certStore
        /\ vr.checks = <<{"A"}>>

\* C3 (amended): with certificates already trusted for the gun, the root is
\* first verified against exactly those; if no trusted certificate's key
\* signed it (a root with only B, signed only by B's key, against trusted A)
\* ValidateRoot returns ErrValidationFail, the store is unchanged and that
\* was the only verification; a success means the root verified against the
\* trusted certificates and then against its own valid leaves, and every
\* trusted certificate that is not among them has been removed.
C3_RotationNeedsOldSignature ==
    (Entered /\ Trusted0 # {}) =>
        /\ Len(vr.checks) >= 1 /\ vr.checks[1] = Trusted0
        /\ ~VerifyRoot(RootSigs, Trusted0) =>
              /\ vr.pc = "done" /\ vr.result = "ErrValidationFail"
              /\ certStore = vr.store0
              /\ vr.checks = <<Trusted0>>
        /\ vr.result = "ok" =>
              /\ VerifyRoot(RootSigs, Trusted0) /\ VerifyRoot(RootSigs, vr.cand)
              /\ vr.checks = <<Trusted0, vr.cand>>
              /\ (Trusted0 \ vr.cand) \cap certStore = {}

\* C3 witness: A is trusted, the root holds only B and is signed only by B's
\* key, and ValidateRoot has returned ErrValidationFail.
C3_Witness ==
    /\ vr.pc = "done" /\ Entered
    /\ Trusted0 = {"A"} /\ vr.cand = {"B"} /\ vr.sigs = {"B"}
    /\ vr.result = "ErrValidationFail"

\* C4: certificates were trusted for the gun and the root verifies against
\* them: after ValidateRoot returns success the trusted set of the gun is
\* exactly the root's valid leaves.
C4_RotationExact ==
    (vr.pc = "done" /\ Entered /\ Trusted0 # {} /\ VerifyRoot(RootSigs, Trusted0)
        /\ vr.result = "ok") =>
        TrustedNow = vr.cand

\* C5: whenever ValidateRoot returns success the trusted set of the gun is
\* exactly the accepted set, whatever the AddCert calls answered.
C5_SuccessMeansExact ==
    (vr.pc = "done" /\ vr.result = "ok") => TrustedNow = vr.allValidCerts

\* C6: a gun that had trusted certificates when ValidateRoot was called never
\* has none, wherever the call stands or stops and whatever it returns; once
\* the removals have begun, or failed, the store holds a superset of the
\* accepted set.
C6_NeverZeroTrusted ==
    (vr.pc # "idle" /\ Trusted0 # {}) =>
        /\ TrustedNow # {}
        /\ (vr.pc = "removing" \/ vr.result = "ErrRootRotationFail") =>
              vr.allValidCerts \subseteq certStore

C8_NoBootstrapWithoutTOFU ==
    (vr.pc # "idle" /\ vr.decodes /\ Trusted0 = {} /\ Pinned = {} /\ NoCAPin
        /\ ~vr.pin.TOFU) =>
        /\ vr.pc = "done" /\ vr.result = "ErrValidationFail"
        /\ certStore = vr.store0

\* C8 witness: such a call was made with a root that has valid leaves and is
\* signed by one of them, with a CA pin for another name, and has failed.
C8_Witness ==
    /\ vr.pc = "done" /\ Entered /\ Trusted0 = {} /\ Pinned = {} /\ NoCAPin
    /\ vr.pin.CA # {} /\ ~vr.pin.TOFU
    /\ VerifyRoot(RootSigs, vr.cand)
    /\ vr.reason = "could not bootstrap trust without trust_pinning configuration"

\* C9: no certificate trusted, no Certs entry, no CA prefix and TOFU true:
\* every root with valid leaves and a valid signature by one of them is
\* accepted, and after the call the trusted set of the gun is exactly the
\* root's valid leaves.
C9_TOFUTrustsLeaves ==
    (vr.pc = "done" /\ Entered /\ Trusted0 = {} /\ Pinned = {} /\ NoCAPin
        /\ vr.pin.TOFU /\ VerifyRoot(RootSigs, vr.cand)) =>
        /\ vr.result = "ok"
        /\ TrustedNow = vr.cand

\* C10: no certificate trusted and a Certs entry for the gun: whatever CA
\* and TOFU hold, if a candidate leaf has the pinned fingerprint then only
\* that certificate is handed to VerifyRoot, accepted, offered to AddCert
\* and added, and the call fails exactly when the root does not verify
\* against it; if none has, the call returns ErrValidationFail and the
\* store is not modified.
C10_PinnedCertOnly ==
    (Entered /\ Trusted0 = {} /\ Pinned # {}) =>
        IF Pinned \subseteq vr.cand
        THEN /\ vr.checks = <<Pinned>>
             /\ vr.offered \subseteq Pinned
             /\ certStore \ vr.store0 \subseteq Pinned
             /\ IF VerifyRoot(RootSigs, Pinned)
                THEN vr.allValidCerts = Pinned /\ vr.result \in {"", "ok"}
                ELSE vr.pc = "done" /\ vr.result = "ErrValidationFail"
        ELSE /\ vr.pc = "done" /\ vr.result = "ErrValidationFail"
             /\ vr.reason = "failed to find matching certificate ID"
             /\ certStore = vr.store0

\* C10 witness: with a CA pin that matches the gun and TOFU true, a root
\* with two valid leaves has been accepted for the pinned one alone.
C10_Witness ==
    /\ vr.pc = "done" /\ vr.result = "ok" /\ Trusted0 = {}
    /\ Pinned = {"A"} /\ vr.cand = {"A", "B"}
    /\ ~NoCAPin /\ vr.pin.TOFU
    /\ TrustedNow = {"A"}

\* the intermediates of the bundle that carries leaf c (every leaf of the
\* model is the single leaf of one bundle)
BundledWith(c) ==
    UNION {GetIntermediateCerts(b) : b \in {x \in KeyBundles : GetLeafCerts(x) = {c}}}
\* the CA pins whose key is a prefix of the call's gun
MatchingCAPins == {e \in vr.pin.CA : HasPrefix(vr.gun, e[1])}

\* C11: no certificate trusted, no Certs entry and some CA key a prefix of
\* the gun: if a matching CA file does not load or fails validation the
\* call returns ErrValidationFail without touching the store; else the one
\* set handed to VerifyRoot is the candidate leaves whose issuer is each
\* matching CA, directly or through an intermediate bundled with the leaf;
\* that set is what is accepted and added, the call fails with
\* ErrValidationFail when the root has no valid signature by it (so when it
\* is empty), and none of this depends on TOFU.
C11_CAPinnedLeavesOnly ==
    (Entered /\ Trusted0 = {} /\ Pinned = {} /\ ~NoCAPin) =>
        LET bad == \E e \in MatchingCAPins :
                      \/ LoadCertFromFile(e[2]) = ""
                      \/ ~ValidateCertificate(LoadCertFromFile(e[2]))
            chain(c, ca) == \/ Issuer(c) = ca
                            \/ Issuer(c) \in BundledWith(c) /\ Issuer(Issuer(c)) = ca
            kept == {c \in vr.cand :
                        \A e \in MatchingCAPins : chain(c, LoadCertFromFile(e[2]))}
        IN  IF bad
            THEN /\ vr.pc = "done" /\ vr.result = "ErrValidationFail"
                 /\ vr.reason \in {"failed to load specified CA trust pin",
                                    "failed to validate specified CA trust pin"}
                 /\ vr.checks = <<>> /\ certStore = vr.store0
            ELSE /\ vr.checks = <<kept>>
                 /\ IF VerifyRoot(RootSigs, kept)
                    THEN /\ vr.allValidCerts = kept /\ vr.result \in {"", "ok"}
                         /\ vr.offered \subseteq kept
                         /\ certStore \ vr.store0 \subseteq kept
                    ELSE /\ vr.pc = "done" /\ vr.result = "ErrValidationFail"
                         /\ certStore = vr.store0

\* C11 witness: with TOFU false and a CA pin on a prefix of the gun, a root
\* with the leaves A (self-signed) and B (issued through a bundled
\* intermediate) has been accepted for B alone.
C11_Witness ==
    /\ vr.pc = "done" /\ vr.result = "ok" /\ Trusted0 = {} /\ Pinned = {}
    /\ ~NoCAPin /\ ~vr.pin.TOFU
    /\ vr.cand = {"A", "B"} /\ vr.allValidCerts = {"B"} /\ TrustedNow = {"B"}

\* C12: a root that decodes and has no leaf certificate with CN equal to the
\* gun, not expired and not using SHA1 makes ValidateRoot return
\* ErrValidationFail before the store is queried (no lookup, no
\* verification against trusted certificates) or modified, whatever the
\* store holds and the pin configuration says.
C12_NoValidLeafFails ==
    (vr.pc # "idle" /\ vr.decodes
        /\ ~\E c \in vr.leaves :
              CommonName(c) = vr.gun /\ ~(now > NotAfter(c)) /\ ~UsesSHA1(c)) =>
        /\ vr.pc = "done" /\ vr.result = "ErrValidationFail"
        /\ vr.reason = "unable to retrieve valid leaf certificates"
        /\ ~vr.lookupErr /\ vr.certsForCN = {} /\ vr.checks = <<>>
        /\ vr.offered = {} /\ vr.removeCalls = {}
        /\ certStore = vr.store0

\* C12 witness: the gun has trusted certificates, TOFU is true, the root
\* carries leaf certificates and is signed by a trusted one, but none of
\* its leaves is valid for the gun, and the call has failed.
C12_Witness ==
    /\ vr.pc = "done" /\ vr.decodes /\ vr.leaves # {} /\ vr.cand = {}
    /\ Trusted0 # {} /\ vr.pin.TOFU /\ VerifyRoot(RootSigs, Trusted0)
    /\ vr.reason = "unable to retrieve valid leaf certificates"

\* C13 (as claimed): at every time, every certificate the store holds is a
\* leaf, is not expired and does not use SHA1 (its Common Name is the gun it
\* is trusted for).
C13_Original ==
    \A c \in certStore : ~IsCA(c) /\ ~UsesSHA1(c) /\ ~(now > NotAfter(c))

\* C13 (amended): every certificate the store holds is a leaf and does not
\* use SHA1, and a certificate enters the store only during a ValidateRoot
\* call for the gun equal to its Common Name, at a time when it is not
\* expired; the store does not drop a certificate when it expires later.
C13_ValidWhenAdded ==
    [][/\ \A c \in certStore' : ~IsCA(c) /\ ~UsesSHA1(c)
       /\ \A c \in certStore' \ certStore :
             /\ vr.pc = "adding" /\ CommonName(c) = vr.gun
             /\ ~(now > NotAfter(c)) /\ now' = now]_vars

\* C13 witness: a certificate that was valid when ValidateRoot added it is
\* still trusted after its NotAfter has passed.
C13_Witness ==
    \E c \in certStore : now > NotAfter(c) /\ c \in GetCertificatesByCN(CommonName(c))

(***************************************************************************)
(* Claims about GetOrCreateSnapshot and GetOrCreateTimestamp               *)
(***************************************************************************)
\* caller p takes the step that leaves position pc
Leaves(p, pc) == mc[p].pc = pc /\ mc'[p] # mc[p]
\* caller p enters GetOrCreateSnapshot
EntersSnapshot(p) == Leaves(p, "idle") /\ mc'[p].op = "snapshot"
StoredSnapshot == metaStore[CanonicalSnapshotRole]
StoredTimestamp == metaStore[CanonicalTimestampRole]
RootKind == metaStore[CanonicalRootRole].data.kind
\* caller p has returned these bytes and this lastModified without error
Returned(p, lastModified, doc) ==
    /\ mc'[p].pc = "done" /\ mc'[p].err = ""
    /\ mc'[p].ret = doc /\ mc'[p].retLM = lastModified
\* caller p has returned this error and no bytes
Failed(p, err) ==
    mc'[p].pc = "done" /\ mc'[p].err = err /\ mc'[p].ret = NoDoc

\* C14: a GetOrCreateSnapshot call that finds a stored snapshot that parses
\* and whose expiry has not passed returns exactly these bytes and their
\* lastModified in that step, writes nothing and leaves the store as it is,
\* whether or not a root is stored and a signing key is held; so a second
\* call with no change in between returns the same bytes.
C14_UnexpiredSnapshotReturned ==
    [][\A p \in Callers :
        (EntersSnapshot(p) /\ StoredSnapshot.data.kind = "snapshot"
            /\ ~(StoredSnapshot.data.expires < now)) =>
            /\ Returned(p, StoredSnapshot.lastModified, StoredSnapshot.data)
            /\ mc'[p].wrote = {}
            /\ metaStore' = metaStore]_vars

\* C14 witness: with no root stored and no signing key held, two calls have
\* returned the stored snapshot, byte for byte.
C14_Witness ==
    /\ \A p \in {1, 2} :
          /\ mc[p].pc = "done" /\ mc[p].op = "snapshot" /\ mc[p].err = ""
          /\ mc[p].ret = StoredSnapshot.data /\ mc[p].wrote = {}
    /\ RootKind = "absent" /\ signerKeys = {}

\* C15: a call that finds the stored snapshot expired goes on to generate;
\* with a root that loads and the snapshot key held it signs a snapshot
\* that differs from the stored one, with the stored version + 1 and an
\* expiry later than the time of signing; unless another call has stored a
\* snapshot meanwhile, it persists and returns exactly that snapshot.
C15_ExpiredSnapshotRegenerated ==
    [][\A p \in Callers :
        /\ (EntersSnapshot(p) /\ StoredSnapshot.data.kind = "snapshot"
               /\ StoredSnapshot.data.expires < now) =>
              mc'[p].pc = "snGen" /\ mc'[p].prevSn = StoredSnapshot.data
        /\ (Leaves(p, "snGen") /\ RootKind = "root"
               /\ CanonicalSnapshotRole \in signerKeys) =>
              /\ mc'[p].pc = "snUpdate"
              /\ mc'[p].update.kind = "snapshot"
              /\ mc'[p].update.version = mc[p].prevSn.version + 1
              /\ mc'[p].update.expires > now
              /\ mc'[p].update # mc[p].prevSn
        /\ (Leaves(p, "snUpdate") /\ mc[p].op = "snapshot"
               /\ StoredSnapshot.data = mc[p].prevSn) =>
              /\ Returned(p, now, mc[p].update)
              /\ metaStore'[CanonicalSnapshotRole].data = mc[p].update
              /\ mc'[p].wrote = {CanonicalSnapshotRole}]_vars

\* C15 witness: a call has returned the snapshot it generated and persisted
\* in place of an expired version 0.
C15_Witness ==
    \E p \in Callers :
        /\ mc[p].pc = "done" /\ mc[p].op = "snapshot" /\ mc[p].err = ""
        /\ mc[p].wrote = {CanonicalSnapshotRole}
        /\ mc[p].ret = StoredSnapshot.data
        /\ mc[p].ret.version = 1 /\ mc[p].ret.expires > now

\* C16 (as claimed): with a root that loads and the snapshot key held, a
\* GetOrCreateSnapshot call does not end with not-found: when no snapshot
\* is stored it creates the first one.
C16_Original ==
    \A p \in Callers :
        (mc[p].pc = "done" /\ mc[p].op = "snapshot" /\ RootKind = "root"
            /\ CanonicalSnapshotRole \in signerKeys) =>
            mc[p].err # "ErrNotFound"

\* C16 (amended): a call that finds no snapshot stored does not generate,
\* also with a root that loads and the snapshot key held: it ends at once
\* with ErrNotFound; the snapshot record of the store changes only from a
\* stored snapshot to one of a later version, so no first snapshot is ever
\* created by the engine.
C16_NoFirstSnapshot ==
    [][/\ \A p \in Callers :
            (Leaves(p, "idle") /\ mc'[p].op = "snapshot" /\ ~Stored(CanonicalSnapshotRole)) =>
                Failed(p, "ErrNotFound") /\ mc'[p].wrote = {}
       /\ metaStore'[CanonicalSnapshotRole] # StoredSnapshot =>
            /\ StoredSnapshot.data.kind = "snapshot"
            /\ metaStore'[CanonicalSnapshotRole].data.kind = "snapshot"
            /\ metaStore'[CanonicalSnapshotRole].data.version > StoredSnapshot.data.version]_vars

\* C16 witness: no snapshot is stored, the root loads, the snapshot key is
\* held, and a call has ended with ErrNotFound.
C16_Witness ==
    \E p \in Callers :
        /\ mc[p].pc = "done" /\ mc[p].op = "snapshot" /\ mc[p].err = "ErrNotFound"
        /\ ~Stored(CanonicalSnapshotRole) /\ RootKind = "root"
        /\ CanonicalSnapshotRole \in signerKeys

\* C17: whatever root and keys are in place, a GetOrCreateSnapshot call
\* fails with the store's ErrNotFound when no snapshot is stored and with
\* the parse error, not ErrNotFound, when the stored bytes do not parse; it
\* returns no bytes and the store is not written.
C17_MissingOrCorruptSnapshotFails ==
    [][\A p \in Callers :
        (EntersSnapshot(p) /\ StoredSnapshot.data.kind # "snapshot") =>
            /\ Failed(p, IF StoredSnapshot.data.kind = "absent" THEN "ErrNotFound"
                          ELSE "SyntaxError")
            /\ mc'[p].wrote = {}
            /\ metaStore' = metaStore]_vars

\* C17 witness: the stored snapshot does not parse, root and key are in
\* place, and a call has ended with the parse error.
C17_Witness ==
    \E p \in Callers :
        /\ mc[p].pc = "done" /\ mc[p].op = "snapshot" /\ mc[p].err = "SyntaxError"
        /\ StoredSnapshot.data.kind = "corrupt" /\ RootKind = "root"
        /\ CanonicalSnapshotRole \in signerKeys

\* C18: when the snapshot engine must generate, or GetOrCreateTimestamp finds
\* the timestamp stale, and the root is missing or does not parse, the call
\* ends with ErrNotFound or the parse error respectively, returns no bytes
\* and nothing is persisted.
C18_NoRootNoRegeneration ==
    [][\A p \in Callers :
        ((\/ Leaves(p, "snGen")
          \/ /\ Leaves(p, "tsCheck")
             /\ \/ mc[p].prevTs.expires < now
                \/ mc[p].prevTs.snap # Hashes(mc[p].snap))
         /\ RootKind # "root") =>
            /\ Failed(p, IF RootKind = "absent" THEN "ErrNotFound" ELSE "SyntaxError")
            /\ mc'[p].wrote = {}
            /\ metaStore' = metaStore]_vars

\* C18 witness: a GetOrCreateTimestamp call whose timestamp and snapshot
\* parse has ended with the parse error of the root.
C18_Witness ==
    \E p \in Callers :
        /\ mc[p].pc = "done" /\ mc[p].op = "timestamp" /\ mc[p].err = "SyntaxError"
        /\ StoredTimestamp.data.kind = "timestamp"
        /\ StoredSnapshot.data.kind = "snapshot" /\ ~(StoredSnapshot.data.expires < now)
        /\ RootKind = "corrupt"

\* C19: when the snapshot engine generates with a root that loads and a
\* crypto service that holds no snapshot key, the call ends with ErrNoKeys,
\* which is neither ErrNotFound nor the parse error, returns no bytes and
\* leaves the stored snapshot as it is.
C19_NoSnapshotKey ==
    [][\A p \in Callers :
        (Leaves(p, "snGen") /\ RootKind = "root"
            /\ CanonicalSnapshotRole \notin signerKeys) =>
            /\ Failed(p, "ErrNoKeys")
            /\ "ErrNoKeys" \notin {"ErrNotFound", "SyntaxError", "ErrOldVersion"}
            /\ mc'[p].wrote = {}
            /\ metaStore' = metaStore]_vars

\* C19 witness: a GetOrCreateSnapshot call on an expired snapshot, with the
\* root in place, has ended with ErrNoKeys and the expired snapshot is
\* still stored.
C19_Witness ==
    \E p \in Callers :
        /\ mc[p].pc = "done" /\ mc[p].op = "snapshot" /\ mc[p].err = "ErrNoKeys"
        /\ StoredSnapshot.data.kind = "snapshot" /\ StoredSnapshot.data.expires < now
        /\ RootKind = "root"

\* C20: with the timestamp read at its entry and the snapshot bytes obtained
\* in the same call, GetOrCreateTimestamp returns the timestamp bytes and
\* lastModified it read, writing no timestamp, when the timestamp's expiry
\* has not passed and its recorded snapshot hash is the hash of those
\* snapshot bytes; otherwise it goes on to create, and then persist, a new
\* timestamp (or fails creating it) -- also when only the snapshot changed.
C20_RegeneratesIffStale ==
    [][\A p \in Callers :
        /\ Leaves(p, "tsCheck") =>
              IF ~(mc[p].prevTs.expires < now) /\ mc[p].prevTs.snap = Hashes(mc[p].snap)
              THEN /\ Returned(p, mc[p].tsLM, mc[p].prevTs)
                   /\ CanonicalTimestampRole \notin mc'[p].wrote
                   /\ metaStore' = metaStore
              ELSE \/ /\ mc'[p].pc = "tsUpdate"
                      /\ mc'[p].update.kind = "timestamp"
                      /\ mc'[p].update # mc[p].prevTs
                      /\ mc'[p].update.snap = Hashes(mc[p].snap)
                   \/ mc'[p].pc = "done" /\ mc'[p].err # "" /\ mc'[p].ret = NoDoc
        /\ Leaves(p, "tsUpdate") =>
              \/ /\ Returned(p, now, mc[p].update)
                 /\ metaStore'[CanonicalTimestampRole].data = mc[p].update
              \/ /\ Failed(p, "ErrOldVersion")
                 /\ metaStore' = metaStore
        /\ metaStore'[CanonicalTimestampRole] # StoredTimestamp =>
              Leaves(p, "tsUpdate") \/ mc'[p] = mc[p]]_vars

\* C20 witness: a call is about to persist a new timestamp although the one
\* it read has not expired, because the snapshot's hash differs.
C20_Witness ==
    \E p \in Callers :
        /\ mc[p].pc = "tsUpdate"
        /\ ~(mc[p].prevTs.expires < now)
        /\ mc[p].prevTs.snap # Hashes(mc[p].snap)

\* caller p enters GetOrCreateTimestamp
EntersTimestamp(p) == Leaves(p, "idle") /\ mc'[p].op = "timestamp"

C22_VersionsByOne ==
    [][\A role \in KeyRoles :
        metaStore'[role] # metaStore[role] =>
            /\ metaStore[role].data.kind = role
            /\ metaStore'[role].data.kind = role
            /\ metaStore'[role].data.version = metaStore[role].data.version + 1]_vars

\* C22 witness: the timestamp has been regenerated twice and the snapshot
\* once, and a call that raced for a version has lost.
C22_Witness ==
    /\ StoredTimestamp.data.version = 2 /\ StoredSnapshot.data.version = 1
    /\ \E p \in Callers : mc[p].pc = "done" /\ mc[p].err = "ErrOldVersion"

\* C23: a GetOrCreateTimestamp call whose UpdateCurrent is rejected because
\* a concurrent call has persisted that version first surfaces no error: it
\* ends with the timestamp that won, the one now stored.
C23_LoserConverges ==
    [][\A p \in Callers :
        (Leaves(p, "tsUpdate") /\ ~UpdateStores(mc[p].update)) =>
            /\ mc'[p].pc = "done" /\ mc'[p].err = ""
            /\ mc'[p].ret = StoredTimestamp.data]_vars

C25_KeyWitness ==
    \E p \in Callers :
        /\ kp[p].pc = "set" /\ kp[p].gun = "g2"
        /\ \E r \in KeyRoles : StoreHasKey("g1", r) /\ keyLog[<<"g1", r>>] # <<>>

(***************************************************************************)
(* Further claims about ValidateRoot                                       *)
(***************************************************************************)
\* C26: with certificates already trusted for the gun, a ValidateRoot call
\* reaches rotation, and so can succeed, only if the root's signatures
\* verify against the trusted certificates and also against the valid leaf
\* certificates of the root itself; when either check fails the call
\* returns ErrValidationFail, with the reason of the check that failed
\* first, and the store is as it was.
C26_VerifiedByOldAndNew ==
    []((Entered /\ Trusted0 # {}) =>
           /\ vr.checks # <<>> /\ vr.checks[1] = Trusted0
           /\ (vr.pc # "done" \/ vr.result # "ErrValidationFail") =>
                 /\ VerifyRoot(RootSigs, Trusted0)
                 /\ VerifyRoot(RootSigs, vr.cand)
                 /\ vr.checks = <<Trusted0, vr.cand>>
           /\ ~VerifyRoot(RootSigs, Trusted0) =>
                 /\ vr.pc = "done" /\ vr.result = "ErrValidationFail"
                 /\ vr.reason = "failed to validate data with current trusted certificates"
                 /\ certStore = vr.store0
           /\ (VerifyRoot(RootSigs, Trusted0) /\ ~VerifyRoot(RootSigs, vr.cand)) =>
                 /\ vr.pc = "done" /\ vr.result = "ErrValidationFail"
                 /\ vr.reason = "failed to validate integrity of roots"
                 /\ certStore = vr.store0)

\* C26 witness: the root is signed by a trusted certificate but by none of
\* its own valid leaves, and the call has failed on the integrity check.
C26_Witness ==
    /\ Entered /\ Trusted0 # {} /\ vr.pc = "done"
    /\ VerifyRoot(RootSigs, Trusted0) /\ ~VerifyRoot(RootSigs, vr.cand)
    /\ vr.reason = "failed to validate integrity of roots"

\* C27: trust pinning is consulted on first use only.  In a call that finds
\* certificates trusted for the gun, the verdict and the set that rotation
\* trusts are a function of the root and of the trusted certificates alone,
\* under every trust pinning configuration: the call is rejected with
\* ErrValidationFail, the store left alone, exactly when the root fails to
\* verify against the trusted certificates or against its own valid
\* leaves, and otherwise goes on to rotation with all valid leaves of the
\* root, none pruned by a pin.  So a root that does not verify against the
\* trusted certificates is rejected whatever TOFU is and whether or not a
\* leaf of the root is the pinned certificate.
C27_PinningOnFirstUseOnly ==
    [](/\ (Entered /\ Trusted0 # {}) =>
             IF VerifyRoot(RootSigs, Trusted0) /\ VerifyRoot(RootSigs, vr.cand)
             THEN /\ vr.result # "ErrValidationFail"
                  /\ vr.allValidCerts = vr.cand
                  /\ vr.checks = <<Trusted0, vr.cand>>
             ELSE /\ vr.pc = "done" /\ vr.result = "ErrValidationFail"
                  /\ vr.allValidCerts \in {{}, vr.cand}
                  /\ vr.reason \in {"failed to validate data with current trusted certificates",
                                     "failed to validate integrity of roots"}
                  /\ certStore = vr.store0
       /\ Entered => vr.certsForCN = Trusted0)

\* C27 witness: a certificate is trusted for the gun; the root presents a
\* different one, which is the pinned certificate and has signed the root,
\* TOFU is true, and the call has failed.
C27_Witness ==
    /\ Entered /\ Trusted0 # {} /\ vr.pc = "done"
    /\ vr.result = "ErrValidationFail"
    /\ vr.pin.TOFU /\ Pinned # {} /\ Pinned \subseteq vr.cand
    /\ vr.cand \cap Trusted0 = {}
    /\ VerifyRoot(RootSigs, vr.cand) /\ ~VerifyRoot(RootSigs, Trusted0)

\* the CA files of the model and the CA maps with two keys that are both
\* prefixes of g1
CAPaths == {"ca1.pem", "ca2.pem", "bad.pem", "missing.pem"}
OverlappingCAPins == {{<<"g", p1>>, <<"g1", p2>>} : p1, p2 \in CAPaths}

\* C28 (as claimed): for some root, gun and CA map with several keys that are
\* prefixes of the gun, two iteration orders of the map make the CA step
\* retain different certificate sets.
C28_Original ==
    \E gun \in Guns, root \in Roots, ca \in OverlappingCAPins :
        \E o1, o2 \in Orders(ca) :
            LET cand == validRootLeafCerts(root, gun, now)
                r1 == CAPinLoop(o1, 1, gun, root, cand)
                r2 == CAPinLoop(o2, 1, gun, root, cand)
            IN  r1.certs # r2.certs

\* C28 (amended): whenever the CA step may run (no certificate is trusted),
\* for every root, gun and CA map with overlapping prefixes, every iteration
\* order of the map gives the same verdict and retains the same set: each
\* matching entry filters what the entries before it left, so the result is
\* the leaves that chain to every matching CA.  Only the reason reported for
\* a failing CA file may depend on the order.
C28_OrderIndependent ==
    []((vr.pc = "idle" /\ certStore = {}) =>
           \A gun \in Guns, root \in Roots, ca \in OverlappingCAPins :
               \A o1, o2 \in Orders(ca) :
                   LET cand == validRootLeafCerts(root, gun, now)
                       r1 == CAPinLoop(o1, 1, gun, root, cand)
                       r2 == CAPinLoop(o2, 1, gun, root, cand)
                       matching == {e \in ca : HasPrefix(gun, e[1])}
                   IN  /\ r1.ok = r2.ok /\ r1.certs = r2.certs
                       /\ r1.ok =>
                             r1.certs = {c \in cand : \A e \in matching :
                                            ChainVerifies(c, LoadCertFromFile(e[2]),
                                                          ParsedIntCerts(root, c))})

\* C28 witness: a call for g1 with two matching CA pins, both of which load,
\* has run the CA step: the leaf B, which chains to the first CA, was not
\* retained because it does not chain to the second.
C28_Witness ==
    /\ Entered /\ Trusted0 = {} /\ Pinned = {}
    /\ Cardinality(MatchingCAPins) = 2
    /\ "B" \in vr.cand /\ vr.checks = <<{}>>
    /\ vr.pc = "done" /\ vr.reason = "failed to validate integrity of roots"

\* C29: a ValidateRoot call that has returned ErrValidationFail has issued no
\* AddCert and no RemoveCert, and the store is exactly as it was at its
\* entry; a call that has issued one has passed the trust decision and the
\* signature verifications before.
C29_FailureLeavesStore ==
    [](/\ (vr.pc = "done" /\ vr.result = "ErrValidationFail") =>
             /\ certStore = vr.store0
             /\ vr.offered = {} /\ vr.removeCalls = {}
             /\ vr.reason \in
                   {"unable to retrieve valid leaf certificates",
                    "unable to retrieve trusted certificates",
                    "failed to validate data with current trusted certificates",
                    "failed to find matching certificate ID",
                    "failed to load specified CA trust pin",
                    "failed to validate specified CA trust pin",
                    "could not bootstrap trust without trust_pinning configuration",
                    "failed to validate integrity of roots"}
       /\ (vr.pc # "idle"
             /\ (vr.offered # {} \/ vr.removeCalls # {} \/ certStore # vr.store0)) =>
             /\ Entered
             /\ VerifyRoot(RootSigs, vr.allValidCerts)
             /\ Trusted0 # {} => VerifyRoot(RootSigs, Trusted0))

\* C29 witness: with certificates in the store, a call for a gun that has
\* none trusted, no pin and TOFU false has returned ErrValidationFail and
\* the store is as it was.
C29_Witness ==
    /\ vr.pc = "done" /\ vr.result = "ErrValidationFail"
    /\ vr.reason = "could not bootstrap trust without trust_pinning configuration"
    /\ certStore # {} /\ certStore = vr.store0

(***************************************************************************)
(* Claims about concurrent GetOrCreateTimestamp calls                      *)
(***************************************************************************)
\* caller p, inside GetOrCreateTimestamp, takes the step that returns
TimestampReturns(p) ==
    mc[p].op = "timestamp" /\ mc[p].pc # "done" /\ mc'[p].pc = "done"

\* C30: under every interleaving, the timestamp a GetOrCreateTimestamp call
\* holds as prev is the one that was stored when the call read it, and it
\* keeps it to its end; a call that returns without error returns either
\* these bytes with their lastModified, writing nothing, or bytes it
\* generated, in the very step in which the store accepts them as the
\* current timestamp; a call whose UpdateCurrent is rejected returns the
\* error and no bytes, as does every call that returns an error.
C30_ReturnsStoredBytes ==
    [][\A p \in Callers :
        LET c == mc[p]
            d == mc'[p]
        IN  IF c.pc = "idle"
            THEN (d.op = "timestamp" /\ d.pc # "done") =>
                    /\ d.prevTs = StoredTimestamp.data
                    /\ d.tsLM = StoredTimestamp.lastModified
            ELSE (c.op = "timestamp" /\ c.pc # "done") =>
                    IF d.pc # "done"
                    THEN /\ d.prevTs = c.prevTs /\ d.tsLM = c.tsLM
                         /\ (c.pc = "tsUpdate" /\ ~UpdateStores(c.update)) => d = c
                    ELSE IF d.err = ""
                    THEN \/ /\ c.pc = "tsCheck"
                            /\ d.ret = c.prevTs /\ d.retLM = c.tsLM
                            /\ metaStore' = metaStore
                         \/ /\ c.pc = "tsUpdate" /\ UpdateStores(c.update)
                            /\ d.ret = c.update
                            /\ metaStore'[CanonicalTimestampRole] = Entry(d.ret, d.retLM)
                    ELSE /\ d.ret = NoDoc /\ metaStore' = metaStore
                         /\ (c.pc = "tsUpdate" /\ ~UpdateStores(c.update)) =>
                               d.err = "ErrOldVersion"]_vars

\* C30 witness: of two concurrent calls one has returned the timestamp it
\* read, which has since been replaced, another the timestamp it generated
\* and persisted, and the store holds the latter.
C30_Witness ==
    \E p, q \in Callers :
        /\ mc[p].pc = "done" /\ mc[p].op = "timestamp" /\ mc[p].err = ""
        /\ mc[p].wrote = {} /\ mc[p].ret.kind = "timestamp"
        /\ mc[p].ret # StoredTimestamp.data
        /\ mc[q].pc = "done" /\ mc[q].op = "timestamp" /\ mc[q].err = ""
        /\ CanonicalTimestampRole \in mc[q].wrote
        /\ mc[q].ret = StoredTimestamp.data

=============================================================================
